---- MODULE Spec2Model ----
(***************************************************************************)
(* Model of stock_charts_github.py: the indicator functions                *)
(* (calculate_rsi, calculate_moving_averages), the display-window filter   *)
(* and x-axis tick selection of create_stock_chart, and the batch loop     *)
(* generate_and_send_charts with send_email_with_charts.                   *)
(*                                                                         *)
(* Numbers are exact rationals extended with NaN and infinity (the values  *)
(* pandas/numpy float arithmetic produces for x/0 and 0/0); rounding of    *)
(* binary floating point is not modelled.  Signed zero is not modelled:    *)
(* the only place it arises is the mean of the negated loss column, and    *)
(* 100 - 100/(1 + g/(+0)) = 100 - 100/(1 + g/(-0)) = 100 either way.       *)
(***************************************************************************)
EXTENDS Integers, Sequences, FiniteSets, TLC

VARIABLES
    \* generate_and_send_charts
    pc, idx, charts_data, successful, failed, log, files,
    sendCalls, composed, smtpCalls, outbox, exit_code, EMAIL_CONFIG,
    \* calculate_rsi
    rsiClose, rsiPeriod, rsiOut,
    \* calculate_moving_averages
    maDf, maPeriods, maOut,
    \* display window of create_stock_chart
    winDf, winNow, winMonths, winOut,
    \* x-axis ticks of create_stock_chart
    tickN, tickOut

batchVars == <<pc, idx, charts_data, successful, failed, log, files,
               sendCalls, composed, smtpCalls, outbox, exit_code, EMAIL_CONFIG>>
rsiVars == <<rsiClose, rsiPeriod, rsiOut>>
maVars == <<maDf, maPeriods, maOut>>
winVars == <<winDf, winNow, winMonths, winOut>>
tickVars == <<tickN, tickOut>>
vars == <<batchVars, rsiVars, maVars, winVars, tickVars>>

----------------------------------------------------------------------------
(* Bounds *)

NumTickers == 3      \* how many of the configured tickers a run processes
TicksPerDay == 2     \* clock resolution: instants per calendar day
NowDay == 400        \* calendar day on which the run happens
DayRadius == 1       \* fetched points lie within this many days of the cutoff day
MaxLen == 4          \* longest close series given to calculate_rsi
MaxClose == 3        \* closes given to calculate_rsi are 1 .. MaxClose
MaxPeriod == 3       \* RSI / MA periods are 1 .. MaxPeriod
MaxRows == 3         \* longest table given to calculate_moving_averages
MaxPrice == 2        \* OHLC prices given to calculate_moving_averages
MaxN == 60           \* longest display window given to the tick selection

(* Program constants *)

DefaultMonths == 6   \* create_stock_chart(ticker, months=6, ...)
DaysPerMonth == 30   \* timedelta(days=months*30)
MaxTicks == 6        \* num_ticks = min(6, len(df_display))

TICKERS == <<"XBI", "HOOD", "UBER", "CIBR", "NLR", "RKLB", "COST", "QQQM",
             "SPLG", "HUMN", "KOID", "GOOGL", "NVDA", "RSP", "PLTR">>

\* the part of TICKERS a bounded run iterates over
Tickers == SubSeq(TICKERS, 1, IF NumTickers < Len(TICKERS) THEN NumTickers ELSE Len(TICKERS))

----------------------------------------------------------------------------
(* Small helpers *)

Min(a, b) == IF a < b THEN a ELSE b
Max(a, b) == IF a > b THEN a ELSE b
Abs(a) == IF a < 0 THEN -a ELSE a

RECURSIVE GCD(_, _)
GCD(a, b) == IF b = 0 THEN a ELSE GCD(b, a % b)

Range(s) == {s[i] : i \in DOMAIN s}

\* all sequences over S of length 0 .. n
SeqsUpTo(S, n) == UNION {[1..k -> S] : k \in 0..n}

----------------------------------------------------------------------------
(* Float values: exact rationals n/d (d > 0, lowest terms) plus NaN and    *)
(* +/- infinity, with the arithmetic numpy applies elementwise.            *)

Num(n, d) == LET g == GCD(Abs(n), d) IN [k |-> "num", n |-> n \div g, d |-> d \div g]
Int2F(n) == Num(n, 1)
NaN == [k |-> "nan", n |-> 0, d |-> 1]
Inf(sign) == [k |-> "inf", n |-> sign, d |-> 1]

isna(a) == a.k = "nan"
Sign(a) == IF a.n < 0 THEN -1 ELSE 1

FNeg(a) == IF a.k = "nan" THEN NaN
           ELSE IF a.k = "inf" THEN Inf(-a.n)
           ELSE Num(-a.n, a.d)

FAdd(a, b) ==
    IF a.k = "nan" \/ b.k = "nan" THEN NaN
    ELSE IF a.k = "inf" /\ b.k = "inf" THEN (IF a.n = b.n THEN a ELSE NaN)
    ELSE IF a.k = "inf" THEN a
    ELSE IF b.k = "inf" THEN b
    ELSE Num(a.n * b.d + b.n * a.d, a.d * b.d)

FSub(a, b) == FAdd(a, FNeg(b))

FDiv(a, b) ==
    IF a.k = "nan" \/ b.k = "nan" THEN NaN
    ELSE IF a.k = "inf" /\ b.k = "inf" THEN NaN
    ELSE IF a.k = "inf" THEN Inf(a.n * Sign(b))
    ELSE IF b.k = "inf" THEN Num(0, 1)
    ELSE IF b.n = 0 THEN (IF a.n = 0 THEN NaN ELSE Inf(Sign(a)))
    ELSE Num(a.n * b.d * Sign(b), a.d * Abs(b.n))

\* a > b and a < b; any comparison with NaN is False
FGt(a, b) ==
    IF a.k = "nan" \/ b.k = "nan" THEN FALSE
    ELSE IF a.k = "inf" THEN a.n = 1 /\ ~(b.k = "inf" /\ b.n = 1)
    ELSE IF b.k = "inf" THEN b.n = -1
    ELSE a.n * b.d > b.n * a.d
FLt(a, b) == FGt(b, a)

----------------------------------------------------------------------------
(* pandas Series operations used by the indicators.  A Series is a         *)
(* sequence of float values; Python position p is index p + 1 here.        *)

\* Series.diff(): the first element has no predecessor and is NaN
diff(s) == [i \in DOMAIN s |-> IF i = 1 THEN NaN ELSE FSub(s[i], s[i - 1])]

\* Series.where(cond, other): keep s[i] where cond[i], else other
where(s, cond, other) == [i \in DOMAIN s |-> IF cond[i] THEN s[i] ELSE other]

RECURSIVE FSum(_, _)
FSum(s, J) == IF J = {} THEN Num(0, 1)
              ELSE LET j == CHOOSE x \in J : TRUE IN FAdd(s[j], FSum(s, J \ {j}))

\* Series.rolling(window=w, min_periods=1).mean()
rolling_mean_min1(s, w) ==
    [i \in DOMAIN s |->
        LET obs == {j \in Max(1, i - w + 1)..i : ~isna(s[j])}
        IN IF Cardinality(obs) < 1 THEN NaN
           ELSE FDiv(FSum(s, obs), Int2F(Cardinality(obs)))]

\* Series.rolling(window=w).mean(): min_periods defaults to the window, NaN
\* observations are not counted; fewer than w observations give NaN
rolling_mean(s, w) ==
    [i \in DOMAIN s |->
        LET obs == {j \in Max(1, i - w + 1)..i : ~isna(s[j])}
        IN IF Cardinality(obs) < w THEN NaN
           ELSE FDiv(FSum(s, obs), Int2F(Cardinality(obs)))]

\* delta = data['Close'].diff()
rsi_delta(close) == diff(close)

\* gain = delta.where(delta > 0, 0).rolling(window=period).mean()
rsi_gain(close, period) ==
    LET delta == rsi_delta(close)
    IN rolling_mean(where(delta, [i \in DOMAIN delta |-> FGt(delta[i], Int2F(0))], Int2F(0)),
                    period)

\* the same with the sign of the loss column not flipped
rsi_loss_unnegated(close, period) ==
    LET delta == rsi_delta(close)
    IN rolling_mean(where(delta, [i \in DOMAIN delta |-> FLt(delta[i], Int2F(0))], Int2F(0)),
                    period)

\* loss = (-delta.where(delta < 0, 0)).rolling(window=period).mean()
rsi_loss(close, period) ==
    LET delta == rsi_delta(close)
        kept == where(delta, [i \in DOMAIN delta |-> FLt(delta[i], Int2F(0))], Int2F(0))
    IN rolling_mean([i \in DOMAIN kept |-> FNeg(kept[i])], period)

\* calculate_rsi(data, period): rs = gain / loss; rsi = 100 - (100 / (1 + rs))
calculate_rsi(close, period) ==
    LET gain == rsi_gain(close, period)
        loss == rsi_loss(close, period)
        rs == [i \in DOMAIN close |-> FDiv(gain[i], loss[i])]
    IN [i \in DOMAIN close |->
           FSub(Int2F(100), FDiv(Int2F(100), FAdd(Int2F(1), rs[i])))]

\* a column of float values from integer prices
ToSeries(c) == [i \in DOMAIN c |-> Int2F(c[i])]

----------------------------------------------------------------------------
(* calculate_moving_averages.  A DataFrame is a record of columns; the     *)
(* MA<period> columns are the field MA, a function from period to Series.  *)

\* df[f'MA{period}'] = value
set_ma(df, period, value) ==
    [df EXCEPT !.MA = [p \in DOMAIN df.MA \cup {period} |->
                          IF p = period THEN value ELSE df.MA[p]]]

RECURSIVE calculate_moving_averages(_, _)
\* for period in periods: df[f'MA{period}'] = df['Close'].rolling(window=period).mean()
calculate_moving_averages(df, periods) ==
    IF periods = <<>> THEN df
    ELSE calculate_moving_averages(
             set_ma(df, Head(periods), rolling_mean(df.Close, Head(periods))),
             Tail(periods))

\* a DataFrame with the four price columns of the given rows and no MA column
Frame(rows) ==
    [Open  |-> ToSeries([i \in DOMAIN rows |-> rows[i].Open]),
     High  |-> ToSeries([i \in DOMAIN rows |-> rows[i].High]),
     Low   |-> ToSeries([i \in DOMAIN rows |-> rows[i].Low]),
     Close |-> ToSeries([i \in DOMAIN rows |-> rows[i].Close]),
     MA    |-> [p \in {} |-> <<>>]]

----------------------------------------------------------------------------
(* x-axis ticks of create_stock_chart *)

RECURSIVE PyRange(_, _, _)
\* list(range(start, stop, step)) for step > 0
PyRange(start, stop, step) ==
    IF start >= stop THEN <<>> ELSE <<start>> \o PyRange(start + step, stop, step)

\* num_ticks = min(6, len(df_display)); tick_spacing = max(1, len(df_display) // num_ticks)
tick_spacing(n) == Max(1, n \div Min(MaxTicks, n))

\* range(0, len(df_display), tick_spacing), for len(df_display) = n >= 1
xticks(n) == PyRange(0, n, tick_spacing(n))

----------------------------------------------------------------------------
(* create_stock_chart.  Instants are integers, TicksPerDay per calendar    *)
(* day.  The table yfinance returns for interval='1d' is indexed by the    *)
(* midnight of each trading day; a row is [Date, complete], complete being *)
(* FALSE when some value of the row is missing.  end_date keeps its time   *)
(* of day through the subtraction and the removal of the timezone; the     *)
(* one-hour shift pandas applies when the subtraction crosses a DST change *)
(* is not modelled.                                                        *)

Midnight(day) == day * TicksPerDay
DayOf(t) == t \div TicksPerDay

\* chart_buffer values: None, or the BytesIO holding the PNG of a ticker
None == [present |-> FALSE, of |-> ""]
Buf(ticker) == [present |-> TRUE, of |-> ticker]
\* truth value of "if chart_buffer:"
Truthy(b) == b.present

\* df = df.dropna()
dropna(df) == SelectSeq(df, LAMBDA r : r.complete)

\* display_start = end_date - timedelta(days=months*30), timezone dropped
display_start(end_date, months) == end_date - months * DaysPerMonth * TicksPerDay

\* df_display = df[df.index >= pd.Timestamp(display_start).tz_localize(None)]
display_window(df, end_date, months) ==
    SelectSeq(df, LAMBDA r : r.Date >= display_start(end_date, months))

ChartResult(ret, msg, site, wrote, raised, shown) ==
    [ret |-> ret, msg |-> msg, site |-> site, wrote |-> wrote, raised |-> raised,
     df_display |-> shown]

\* where an exception of the environment strikes, if that statement is reached
FailSites == {"none", "fetch", "compute", "draw", "file", "buf"}

\* create_stock_chart with the exception of a failing statement propagating
\* to the caller instead of being caught
create_stock_chart_uncaught(ticker, months, save_to_file, end_date, fetched, failAt) ==
    LET df == dropna(fetched)
        df_display == display_window(df, end_date, months)
    IN IF failAt = "fetch" THEN ChartResult(None, "error", "render", FALSE, TRUE, <<>>)
       ELSE IF fetched = <<>> THEN ChartResult(None, "no_data", "", FALSE, FALSE, <<>>)
       ELSE IF failAt = "compute" THEN ChartResult(None, "error", "render", FALSE, TRUE, <<>>)
       ELSE IF Len(df_display) = 0
            THEN ChartResult(None, "no_recent", "", FALSE, FALSE, df_display)
       ELSE IF failAt = "draw"
            THEN ChartResult(None, "error", "render", FALSE, TRUE, df_display)
       ELSE IF save_to_file /\ failAt = "file"
            THEN ChartResult(None, "error", "file", FALSE, TRUE, df_display)
       ELSE IF failAt = "buf"
            THEN ChartResult(None, "error", "render", save_to_file, TRUE, df_display)
       ELSE ChartResult(Buf(ticker), "ok", "", save_to_file, FALSE, df_display)

\* create_stock_chart(ticker, months, save_to_file): the whole body is inside
\* try/except Exception, which prints and returns None
create_stock_chart(ticker, months, save_to_file, end_date, fetched, failAt) ==
    LET df == dropna(fetched)
        df_display == display_window(df, end_date, months)
    IN IF failAt = "fetch" THEN ChartResult(None, "error", "render", FALSE, FALSE, <<>>)
       ELSE IF fetched = <<>> THEN ChartResult(None, "no_data", "", FALSE, FALSE, <<>>)
       ELSE IF failAt = "compute" THEN ChartResult(None, "error", "render", FALSE, FALSE, <<>>)
       ELSE IF Len(df_display) = 0
            THEN ChartResult(None, "no_recent", "", FALSE, FALSE, df_display)
       ELSE IF failAt = "draw"
            THEN ChartResult(None, "error", "render", FALSE, FALSE, df_display)
       ELSE IF save_to_file /\ failAt = "file"
            THEN ChartResult(None, "error", "file", FALSE, FALSE, df_display)
       ELSE IF failAt = "buf"
            THEN ChartResult(None, "error", "render", save_to_file, FALSE, df_display)
       ELSE ChartResult(Buf(ticker), "ok", "", save_to_file, FALSE, df_display)

\* the calendar day display_start falls on, for the run's day
CutoffDay(months) == NowDay - months * DaysPerMonth

RECURSIVE SortedRows(_, _)
\* the table with one row per day of D in date order, incomplete on the days of B
SortedRows(D, B) ==
    IF D = {} THEN <<>>
    ELSE LET m == CHOOSE x \in D : \A y \in D : x <= y
         IN <<[Date |-> Midnight(m), complete |-> m \notin B]>> \o SortedRows(D \ {m}, B)

\* fetched tables: any set of trading days within DayRadius of the cutoff day
FetchSet(months) ==
    LET days == (CutoffDay(months) - DayRadius)..(CutoffDay(months) + DayRadius)
    IN {SortedRows(D, B) : D \in SUBSET days, B \in SUBSET days}

\* the fetched tables of at most one row
SmallFetchSet(months) == {f \in FetchSet(months) : Len(f) <= 1}

----------------------------------------------------------------------------
(* send_email_with_charts.  EMAIL_CONFIG records which of the three        *)
(* settings are set to a non-empty value; smtpOk is whether connecting,    *)
(* starttls, login and send_message all succeed.                           *)

ConfigOK(cfg) == cfg.sender_email /\ cfg.sender_password /\ cfg.recipient_email

\* the message: the text part lists every ticker of charts_data, the HTML part
\* embeds the image of each entry whose buffer is truthy
Compose(charts) ==
    [text |-> [i \in DOMAIN charts |-> charts[i][1]],
     html |-> SelectSeq(charts, LAMBDA c : Truthy(c[2]))]

SendResult(ret, nComposed, nSmtp, delivered) ==
    [ret |-> ret, composed |-> nComposed, smtp |-> nSmtp, delivered |-> delivered]

\* send_email_with_charts reporting success although the transport raised
send_email_ignoring_errors(charts, cfg, smtpOk) ==
    IF ~ConfigOK(cfg) THEN SendResult(FALSE, 0, 0, <<>>)
    ELSE IF smtpOk THEN SendResult(TRUE, 1, 1, <<Compose(charts)>>)
    ELSE SendResult(TRUE, 1, 1, <<>>)

\* send_email_with_charts(charts_data)
send_email_with_charts(charts, cfg, smtpOk) ==
    IF ~ConfigOK(cfg) THEN SendResult(FALSE, 0, 0, <<>>)
    ELSE IF smtpOk THEN SendResult(TRUE, 1, 1, <<Compose(charts)>>)
    ELSE SendResult(FALSE, 1, 1, <<>>)

----------------------------------------------------------------------------
(* generate_and_send_charts *)

\* charts_data.append((ticker, chart_buffer)) whatever chart_buffer is
AppendAlways(cd, ticker, chart_buffer) == Append(cd, <<ticker, chart_buffer>>)

\* if chart_buffer: charts_data.append((ticker, chart_buffer))
AppendChart(cd, ticker, chart_buffer) ==
    IF Truthy(chart_buffer) THEN Append(cd, <<ticker, chart_buffer>>) ELSE cd

IdleBatch ==
    /\ idx = 0 /\ charts_data = <<>> /\ successful = <<>> /\ failed = <<>>
    /\ log = <<>> /\ files = {} /\ sendCalls = 0 /\ composed = 0 /\ smtpCalls = 0
    /\ outbox = <<>> /\ exit_code = -1
    /\ EMAIL_CONFIG = [sender_email |-> FALSE, sender_password |-> FALSE,
                       recipient_email |-> FALSE]
IdleRSI == rsiClose = <<>> /\ rsiPeriod = 0 /\ rsiOut = <<>>
IdleMA == maDf = Frame(<<>>) /\ maPeriods = <<>> /\ maOut = Frame(<<>>)
IdleWin == winDf = <<>> /\ winNow = 0 /\ winMonths = 0
           /\ winOut = ChartResult(None, "", "", FALSE, FALSE, <<>>)
IdleTick == tickN = 0 /\ tickOut = <<>>

\* module import (EMAIL_CONFIG from the environment) and lines 294-296
Init ==
    /\ pc = "loop"
    /\ idx = 1
    /\ charts_data = <<>> /\ successful = <<>> /\ failed = <<>>
    /\ log = <<>> /\ files = {}
    /\ sendCalls = 0 /\ composed = 0 /\ smtpCalls = 0 /\ outbox = <<>>
    /\ exit_code = -1
    /\ EMAIL_CONFIG \in [sender_email : BOOLEAN, sender_password : BOOLEAN,
                         recipient_email : BOOLEAN]
    /\ IdleRSI /\ IdleMA /\ IdleWin /\ IdleTick

\* one iteration of "for ticker in TICKERS" (lines 298-307)
ProcessTicker ==
    /\ pc = "loop"
    /\ idx <= Len(Tickers)
    /\ \E tod \in 0..(TicksPerDay - 1), fetched \in SmallFetchSet(DefaultMonths),
          failAt \in FailSites :
        LET ticker == Tickers[idx]
            res == create_stock_chart(ticker, DefaultMonths, TRUE,
                                      Midnight(NowDay) + tod, fetched, failAt)
        IN /\ log' = Append(log, [ticker |-> ticker, msg |-> res.msg, site |-> res.site])
           /\ files' = IF res.wrote THEN files \cup {ticker} ELSE files
           /\ IF res.raised
              THEN /\ pc' = "crashed"
                   /\ UNCHANGED <<idx, charts_data, successful, failed>>
              ELSE /\ pc' = "loop"
                   /\ idx' = idx + 1
                   /\ charts_data' = AppendChart(charts_data, ticker, res.ret)
                   /\ successful' = IF Truthy(res.ret) THEN Append(successful, ticker)
                                    ELSE successful
                   /\ failed' = IF Truthy(res.ret) THEN failed ELSE Append(failed, ticker)
    /\ UNCHANGED <<sendCalls, composed, smtpCalls, outbox, exit_code, EMAIL_CONFIG>>
    /\ UNCHANGED <<rsiVars, maVars, winVars, tickVars>>

\* the send branch with a failed send left to be tried again
SendDigestRetrying ==
    /\ pc = "loop"
    /\ idx > Len(Tickers)
    /\ charts_data # <<>>
    /\ \E smtpOk \in BOOLEAN :
        LET r == send_email_with_charts(charts_data, EMAIL_CONFIG, smtpOk)
        IN /\ sendCalls' = sendCalls + 1
           /\ composed' = composed + r.composed
           /\ smtpCalls' = smtpCalls + r.smtp
           /\ outbox' = outbox \o r.delivered
           /\ exit_code' = IF r.ret THEN 0 ELSE 1
           /\ pc' = IF r.ret THEN "done" ELSE "loop"
    /\ UNCHANGED <<idx, charts_data, successful, failed, log, files, EMAIL_CONFIG>>
    /\ UNCHANGED <<rsiVars, maVars, winVars, tickVars>>

\* after the loop, "if charts_data:" (lines 315-322)
SendDigest ==
    /\ pc = "loop"
    /\ idx > Len(Tickers)
    /\ charts_data # <<>>
    /\ \E smtpOk \in BOOLEAN :
        LET r == send_email_with_charts(charts_data, EMAIL_CONFIG, smtpOk)
        IN /\ sendCalls' = sendCalls + 1
           /\ composed' = composed + r.composed
           /\ smtpCalls' = smtpCalls + r.smtp
           /\ outbox' = outbox \o r.delivered
           /\ exit_code' = IF r.ret THEN 0 ELSE 1
    /\ pc' = "done"
    /\ UNCHANGED <<idx, charts_data, successful, failed, log, files, EMAIL_CONFIG>>
    /\ UNCHANGED <<rsiVars, maVars, winVars, tickVars>>

\* after the loop, the else branch of "if charts_data:" (lines 323-325)
NoCharts ==
    /\ pc = "loop"
    /\ idx > Len(Tickers)
    /\ charts_data = <<>>
    /\ exit_code' = 1
    /\ pc' = "done"
    /\ UNCHANGED <<idx, charts_data, successful, failed, log, files, sendCalls,
                   composed, smtpCalls, outbox, EMAIL_CONFIG>>
    /\ UNCHANGED <<rsiVars, maVars, winVars, tickVars>>

Next == ProcessTicker \/ SendDigest \/ NoCharts

Spec == Init /\ [][Next]_vars

----------------------------------------------------------------------------
(* calculate_rsi applied to bounded inputs *)

InitRSI ==
    /\ pc = "rsi_in"
    /\ rsiClose \in SeqsUpTo(1..MaxClose, MaxLen)
    /\ rsiPeriod \in 1..MaxPeriod
    /\ rsiOut = <<>>
    /\ IdleBatch /\ IdleMA /\ IdleWin /\ IdleTick

ApplyRSI ==
    /\ pc = "rsi_in"
    /\ rsiOut' = calculate_rsi(ToSeries(rsiClose), rsiPeriod)
    /\ pc' = "rsi_out"
    /\ UNCHANGED <<rsiClose, rsiPeriod>>
    /\ UNCHANGED <<idx, charts_data, successful, failed, log, files, sendCalls,
                   composed, smtpCalls, outbox, exit_code, EMAIL_CONFIG>>
    /\ UNCHANGED <<maVars, winVars, tickVars>>

NextRSI == ApplyRSI

SpecRSI == InitRSI /\ [][NextRSI]_vars

----------------------------------------------------------------------------
(* calculate_moving_averages applied to bounded inputs *)

\* rows of a price table: open and close in 1 .. MaxPrice, high and low the
\* larger and the smaller of the two
RowSet == {[Open |-> o, High |-> Max(o, c), Low |-> Min(o, c), Close |-> c] :
              o \in 1..MaxPrice, c \in 1..MaxPrice}

InitMA ==
    /\ pc = "ma_in"
    /\ \E rows \in SeqsUpTo(RowSet, MaxRows) : maDf = Frame(rows)
    /\ maPeriods \in SeqsUpTo(1..MaxPeriod, 2)
    /\ maOut = Frame(<<>>)
    /\ IdleBatch /\ IdleRSI /\ IdleWin /\ IdleTick

ApplyMA ==
    /\ pc = "ma_in"
    /\ maOut' = calculate_moving_averages(maDf, maPeriods)
    /\ pc' = "ma_out"
    /\ UNCHANGED <<maDf, maPeriods>>
    /\ UNCHANGED <<idx, charts_data, successful, failed, log, files, sendCalls,
                   composed, smtpCalls, outbox, exit_code, EMAIL_CONFIG>>
    /\ UNCHANGED <<rsiVars, winVars, tickVars>>

NextMA == ApplyMA

SpecMA == InitMA /\ [][NextMA]_vars

----------------------------------------------------------------------------
(* the display window of create_stock_chart applied to bounded inputs *)

InitWin ==
    /\ pc = "win_in"
    /\ winMonths \in 1..DefaultMonths
    /\ winNow \in {Midnight(NowDay) + tod : tod \in 0..(TicksPerDay - 1)}
    /\ winDf \in FetchSet(winMonths)
    /\ winOut = ChartResult(None, "", "", FALSE, FALSE, <<>>)
    /\ IdleBatch /\ IdleRSI /\ IdleMA /\ IdleTick

ApplyWin ==
    /\ pc = "win_in"
    /\ winOut' = create_stock_chart("XBI", winMonths, FALSE, winNow, winDf, "none")
    /\ pc' = "win_out"
    /\ UNCHANGED <<winDf, winNow, winMonths>>
    /\ UNCHANGED <<idx, charts_data, successful, failed, log, files, sendCalls,
                   composed, smtpCalls, outbox, exit_code, EMAIL_CONFIG>>
    /\ UNCHANGED <<rsiVars, maVars, tickVars>>

NextWin == ApplyWin

SpecWin == InitWin /\ [][NextWin]_vars

----------------------------------------------------------------------------
(* the x-axis ticks of create_stock_chart applied to bounded inputs *)

InitTick ==
    /\ pc = "tick_in"
    /\ tickN \in 1..MaxN
    /\ tickOut = <<>>
    /\ IdleBatch /\ IdleRSI /\ IdleMA /\ IdleWin

ApplyTick ==
    /\ pc = "tick_in"
    /\ tickOut' = xticks(tickN)
    /\ pc' = "tick_out"
    /\ UNCHANGED tickN
    /\ UNCHANGED <<idx, charts_data, successful, failed, log, files, sendCalls,
                   composed, smtpCalls, outbox, exit_code, EMAIL_CONFIG>>
    /\ UNCHANGED <<rsiVars, maVars, winVars>>

NextTick == ApplyTick

SpecTick == InitTick /\ [][NextTick]_vars

----------------------------------------------------------------------------
(* Properties of generate_and_send_charts, checked under Spec *)

IsPrefix(s, t) == Len(s) <= Len(t) /\ SubSeq(t, 1, Len(s)) = s
NoDuplicates(s) == \A i, j \in DOMAIN s : s[i] = s[j] => i = j
Processed == SubSeq(Tickers, 1, idx - 1)

\* C1: when generate_and_send_charts has returned, the exit code is 0 or 1,
\* and it is 0 exactly when at least one ticker produced a chart and
\* send_email_with_charts delivered the digest; with no chart, missing email
\* configuration or a transport exception it is 1.
ExitCodeContract ==
    pc = "done" =>
        /\ exit_code \in {0, 1}
        /\ exit_code = 0 <=> /\ \E k \in DOMAIN log : log[k].msg = "ok"
                             /\ Len(outbox) = 1

\* a run that returned 0 although one of its tickers failed
ExitZeroWithFailure == pc = "done" /\ exit_code = 0 /\ failed # <<>>

\* C2: a failure of one ticker (empty fetch, empty window, any exception) makes
\* create_stock_chart return None, is recorded in failed and never stops the
\* loop: the tickers processed so far are exactly a prefix of TICKERS, each
\* once and in list order, and the run ends only after the whole list.
TickerIsolation ==
    /\ pc \in {"loop", "done"}
    /\ idx \in 1..(Len(Tickers) + 1)
    /\ [k \in DOMAIN log |-> log[k].ticker] = Processed
    /\ \A k \in DOMAIN log :
          log[k].msg # "ok" =>
              /\ log[k].ticker \in Range(failed)
              /\ \A c \in DOMAIN charts_data : charts_data[c][1] # log[k].ticker
    /\ pc = "done" => Len(log) = Len(Tickers)

\* a finished run in which a ticker succeeded after two earlier tickers
\* failed in different ways
SuccessAfterFailures ==
    /\ pc = "done"
    /\ \E i, j, k \in DOMAIN log :
          /\ i < j /\ j < k
          /\ log[i].msg # "ok" /\ log[j].msg # "ok" /\ log[i].msg # log[j].msg
          /\ log[k].msg = "ok"

\* C3: send_email_with_charts is called at most once, only after every ticker
\* has been processed and only with at least one chart; the transport is tried
\* at most once per call (no retry); a run in which every ticker failed neither
\* composes nor sends a digest and returns non-zero.
SendAtMostOnce ==
    /\ sendCalls <= 1
    /\ smtpCalls <= sendCalls
    /\ composed <= sendCalls
    /\ Len(outbox) <= smtpCalls
    /\ sendCalls = 1 => /\ pc = "done"
                        /\ Len(log) = Len(Tickers)
                        /\ charts_data # <<>>
    /\ (pc = "done" /\ successful = <<>>) =>
          /\ sendCalls = 0 /\ composed = 0 /\ smtpCalls = 0 /\ outbox = <<>>
          /\ exit_code # 0

\* a finished run whose single send attempt failed in the transport
FailedSendNotRetried ==
    /\ pc = "done" /\ sendCalls = 1 /\ smtpCalls = 1 /\ outbox = <<>> /\ exit_code = 1

\* C9 (as claimed): a ticker whose fetch, windowing and drawing succeeded and
\* whose chart file could not be written is still a successful ticker.
FileWriteFailureHarmless ==
    \A k \in DOMAIN log : log[k].site = "file" => log[k].ticker \notin Range(failed)

ChartsConsistent ==
    /\ [c \in DOMAIN charts_data |-> charts_data[c][1]] = successful
    /\ NoDuplicates(successful)
    /\ Range(successful) \cap Range(failed) = {}
    /\ Range(successful) \cup Range(failed) = Range(Processed)
    /\ Len(successful) + Len(failed) = Len(Processed)
    /\ successful = SelectSeq(Processed, LAMBDA t : t \in Range(successful))
    /\ \A c \in DOMAIN charts_data : Truthy(charts_data[c][2])
    /\ \A m \in DOMAIN outbox : /\ outbox[m].html = charts_data
                                /\ outbox[m].text = successful

\* C10: charts_data only grows by appending; in every state its tickers are the
\* successful list, in configuration order and without duplicates; successful
\* and failed are disjoint and together are the tickers processed so far; every
\* entry, and so everything handed to send_email_with_charts, has a buffer.
ChartsAppendOnly ==
    /\ []ChartsConsistent
    /\ [][IsPrefix(charts_data, charts_data')]_vars

\* a delivered digest of at least two charts from a run with a failed ticker
DigestOfSeveralCharts ==
    /\ pc = "done" /\ Len(charts_data) >= 2 /\ failed # <<>> /\ Len(outbox) = 1

----------------------------------------------------------------------------
(* Properties of calculate_rsi, checked under SpecRSI *)

\* gain and loss of the day-over-day move into position i, the first
\* position counting as no move
IntGain(c, i) == IF i > 1 /\ c[i] > c[i - 1] THEN c[i] - c[i - 1] ELSE 0
IntLoss(c, i) == IF i > 1 /\ c[i] < c[i - 1] THEN c[i - 1] - c[i] ELSE 0

RECURSIVE IntSum(_, _, _, _)
IntSum(F(_, _), c, lo, hi) == IF lo > hi THEN 0 ELSE F(c, hi) + IntSum(F, c, lo, hi - 1)

StrictlyIncreasing(c) == \A i \in 2..Len(c) : c[i] > c[i - 1]

\* C4 (as claimed): the RSI is absent at each of the first `period` positions.
RsiAbsentForFirstPeriod ==
    pc = "rsi_out" =>
        \A i \in 1..Min(rsiPeriod, Len(rsiClose)) : isna(rsiOut[i])

\* C5: at every position with a full trailing window, with G and L the sums
\* of gains and losses over the window: the RSI is 100 when L = 0 < G, absent
\* when G = L = 0, and 100 - 100/(1 + G/L) = 100 G / (G + L) otherwise; every
\* defined RSI lies in [0, 100], and for strictly increasing closes every
\* defined RSI is 100.
RsiValues ==
    pc = "rsi_out" =>
        /\ Len(rsiOut) = Len(rsiClose)
        /\ \A i \in rsiPeriod..Len(rsiClose) :
              LET G == IntSum(IntGain, rsiClose, i - rsiPeriod + 1, i)
                  L == IntSum(IntLoss, rsiClose, i - rsiPeriod + 1, i)
                  r == rsiOut[i]
              IN /\ (L = 0 /\ G > 0) => r = [k |-> "num", n |-> 100, d |-> 1]
                 /\ (L = 0 /\ G = 0) => r.k = "nan"
                 /\ L > 0 => r.k = "num" /\ r.n * (G + L) = 100 * G * r.d
        /\ \A i \in DOMAIN rsiOut :
              rsiOut[i].k # "nan" =>
                  /\ rsiOut[i].k = "num"
                  /\ rsiOut[i].n >= 0
                  /\ rsiOut[i].n <= 100 * rsiOut[i].d
                  /\ StrictlyIncreasing(rsiClose) => rsiOut[i].n = 100 * rsiOut[i].d

\* a result holding a flat window (absent), a saturated window (100) and a
\* window with both gains and losses (strictly between 0 and 100)
RsiAllCases ==
    /\ pc = "rsi_out"
    /\ \E i, j, k \in rsiPeriod..Len(rsiOut) :
          /\ rsiOut[i].k = "nan"
          /\ rsiOut[j] = [k |-> "num", n |-> 100, d |-> 1]
          /\ rsiOut[k].k = "num" /\ rsiOut[k].n > 0 /\ rsiOut[k].n < 100 * rsiOut[k].d

----------------------------------------------------------------------------
(* Properties of calculate_moving_averages, checked under SpecMA *)

\* the integer close at index i of a Close column of integer prices
CloseAt(c, i) == c[i].n

\* C6: for every requested period p the column MA<p> exists, is absent at the
\* first p-1 positions and from position p-1 on is the arithmetic mean of the
\* last p closes, whatever other periods are requested; no other column is
\* added and Open, High, Low and Close are unchanged.
MovingAverageColumns ==
    pc = "ma_out" =>
        /\ DOMAIN maOut.MA = Range(maPeriods)
        /\ \A p \in Range(maPeriods) :
              /\ Len(maOut.MA[p]) = Len(maDf.Close)
              /\ \A i \in DOMAIN maDf.Close :
                    LET v == maOut.MA[p][i]
                    IN /\ i < p => v.k = "nan"
                       /\ i >= p => /\ v.k = "num"
                                    /\ v.n * p = v.d * IntSum(CloseAt, maDf.Close, i - p + 1, i)
        /\ maOut.Open = maDf.Open /\ maOut.High = maDf.High
        /\ maOut.Low = maDf.Low /\ maOut.Close = maDf.Close

\* two different periods, both with absent and with defined positions
TwoMovingAverages ==
    /\ pc = "ma_out"
    /\ Len(maPeriods) = 2 /\ maPeriods[1] # maPeriods[2]
    /\ \A p \in Range(maPeriods) : p >= 2 /\ p <= Len(maDf.Close)
    /\ \E i, j \in DOMAIN maDf.Close : i # j /\ maDf.Close[i] # maDf.Close[j]

----------------------------------------------------------------------------
(* Properties of the display window, checked under SpecWin *)

\* C7 (as claimed): the display window is exactly the complete rows dated on
\* or after the cutoff calendar day, and with no such row create_stock_chart
\* returns None.
WindowByCalendarDay ==
    pc = "win_out" =>
        LET cutoff == DayOf(display_start(winNow, winMonths))
            expected == SelectSeq(dropna(winDf), LAMBDA r : DayOf(r.Date) >= cutoff)
        IN /\ winDf # <<>> => winOut.df_display = expected
           /\ expected = <<>> => winOut.ret = None

----------------------------------------------------------------------------
(* Properties of the x-axis ticks, checked under SpecTick *)

\* C8 (as claimed): the tick positions number at most 6, are evenly spaced
\* and lie within 0 .. n-1.
AtMostSixTicks ==
    pc = "tick_out" =>
        /\ Len(tickOut) <= MaxTicks
        /\ \A i \in 2..Len(tickOut) : tickOut[i] - tickOut[i - 1] = tickOut[2] - tickOut[1]
        /\ \A i \in DOMAIN tickOut : tickOut[i] \in 0..(tickN - 1)

====
